---- MODULE Spec2Model ----
(***************************************************************************)
(* State-machine model of hibiki-rs/src/gen.rs: the streaming inference    *)
(* driver `run` and the incremental detokenizer `text`.                    *)
(*                                                                         *)
(* Two executions of `run` on the same arguments and the same files are    *)
(* advanced side by side (run[1], run[2]); every action performs the same  *)
(* step of the code in both.  The collaborators (codec, generator state,   *)
(* tokenizer, file system) are deterministic devices: a collaborator that  *)
(* has seen the same calls answers the same (Deterministic), and is        *)
(* otherwise free to answer anything its interface allows.                 *)
(*                                                                         *)
(* Option<T> is a sequence of length 0 (None) or 1 (Some).  Strings are    *)
(* sequences of one-character strings.  Floats are counted in tenths.      *)
(***************************************************************************)
EXTENDS Integers, Sequences, FiniteSets, TLC

VARIABLES args, env, run

vars == <<args, env, run>>

Runs == {1, 2}

\* ------------------------------------------------------------------ bounds

\* The sub-steps all code frames of one run add up to (the codec buffers
\* every later frame).
MaxTotalSteps == 4

\* The samples of one decoded PCM chunk.
ChunkLen == 2

\* ------------------------------------------------------- program constants

frame_size == 1920
max_frames == 2500
silence_pad == 12000
target_rate == 24000
acoustic_delay_short == 2 - 1
acoustic_delay == 2
text_eop_token == 0
text_pad_token == 3
step_headroom == 20
default_codebooks == 8
one_alpha == 10

\* ----------------------------------------------------------------- options

None == <<>>
Some(x) == <<x>>
IsSome(o) == Len(o) > 0
IsNone(o) == Len(o) = 0

Min(a, b) == IF a < b THEN a ELSE b

\* Result<Option<...>>: ok = FALSE is Err(..); val is the Option (or the unit).
Err == [ok |-> FALSE, val |-> <<>>]
Ok(v) == [ok |-> TRUE, val |-> v]

\* One collaborator call: the operation, its arguments and its result, all
\* as integers so that any two calls can be compared.  In the history of an
\* execution an entry stands for n calls: consecutive encode_step calls on
\* adjacent frames of one width that all returned no code frame are kept as
\* one entry, whose arguments are the first sample of the first frame and the
\* end of the last.
Call(op, arg, res) == [op |-> op, arg |-> arg, res |-> res, n |-> 1]

Joins(last, c) ==
  /\ last.op = "encode_step" /\ c.op = "encode_step"
  /\ last.res = [ok |-> TRUE, val |-> <<>>] /\ c.res = last.res
  /\ c.arg[1] = last.arg[2]
  /\ (c.arg[2] - c.arg[1]) * last.n = last.arg[2] - last.arg[1]

Record1(calls, c) ==
  IF calls # <<>> /\ Joins(calls[Len(calls)], c)
  THEN [calls EXCEPT ![Len(calls)] =
          [@ EXCEPT !.arg = <<@[1], c.arg[2]>>, !.n = @ + 1]]
  ELSE Append(calls, c)

RECURSIVE Record(_, _)
Record(calls, fresh) ==
  IF fresh = <<>> THEN calls ELSE Record(Record1(calls, Head(fresh)), Tail(fresh))

\* The history of s with the calls of its latest step added.
Logged(s) == [s EXCEPT !.calls = Record(@, s.fresh)]

\* --------------------------------------------------------------- lm_config

\* let lm_config = &args.lm_config; the fields `run` reads are
\* audio_codebooks, depformer (its num_slices), text_out_vocab_size and
\* audio_vocab_size.
lm_config == args.lm_config

\* ---------------------------------------------------------- text tokenizer

\* The pieces of the tokenizer model: 0, 1 and 3 are control pieces with no
\* surface text, 2 is the word piece "_a" (a leading space marker), every
\* other id a word-internal piece.
Piece(t) ==
  IF t \in {0, 1, 3} THEN <<>>
  ELSE IF t = 2 THEN <<" ", "a">>
  ELSE <<"b">>

RECURSIVE Pieces(_)
Pieces(ids) ==
  IF ids = <<>> THEN <<>> ELSE Piece(Head(ids)) \o Pieces(Tail(ids))

\* SentencePieceProcessor::decode_piece_ids: an id outside the vocabulary is
\* an error; the pieces are joined and the leading space is dropped.
decode_piece_ids(ids) ==
  IF \E i \in 1..Len(ids) : ids[i] \notin 0..(lm_config.text_out_vocab_size - 1)
  THEN Err
  ELSE LET s == Pieces(ids)
       IN Ok(IF s # <<>> /\ Head(s) = " " THEN Tail(s) ELSE s)

\* Result::ok(): Result<T> to Option<T>.
ResultOk(res) == IF res.ok THEN Some(res.val) ELSE None

text_off_by_one(prev_text_token, text_token, text_start_token) ==
  IF prev_text_token = text_start_token
  THEN ResultOk(decode_piece_ids(<<text_token>>))
  ELSE LET prev_ids == ResultOk(decode_piece_ids(<<prev_text_token>>))
           ids == ResultOk(decode_piece_ids(<<prev_text_token, text_token>>))
       IN IF IsNone(prev_ids) \/ IsNone(ids) THEN None
          ELSE Some(IF Len(ids[1]) > Len(prev_ids[1])
                    THEN SubSeq(ids[1], Len(prev_ids[1]) + 2, Len(ids[1]))
                    ELSE <<>>)

\* fn text: the fragment of the newest token, from the last two tokens.
text(prev_text_token, text_token, text_start_token) ==
  IF prev_text_token = text_start_token
  THEN ResultOk(decode_piece_ids(<<text_token>>))
  ELSE LET prev_ids == ResultOk(decode_piece_ids(<<prev_text_token>>))
           ids == ResultOk(decode_piece_ids(<<prev_text_token, text_token>>))
       IN IF IsNone(prev_ids) \/ IsNone(ids) THEN None
          ELSE Some(IF Len(ids[1]) > Len(prev_ids[1])
                    THEN SubSeq(ids[1], Len(prev_ids[1]) + 1, Len(ids[1]))
                    ELSE <<>>)

\* ------------------------------------------------- what `run` computes first

\* crate::audio_io::resample: the same duration at the new rate.
resample(len, from_rate, to_rate) == (len * to_rate) \div from_rate

\* in_pcm_len: the decoded samples, 12000 samples of silence appended,
\* resampled to 24 kHz when the file has another rate.
in_pcm_len_of(pcm_len, sample_rate) ==
  LET padded == pcm_len + silence_pad
  IN IF sample_rate # target_rate THEN resample(padded, sample_rate, target_rate)
     ELSE padded

generated_audio_codebooks ==
  IF IsSome(lm_config.depformer) THEN lm_config.depformer[1] ELSE default_codebooks

\* condition_lut("description", ..): a condition tensor is the sequence of
\* its batch rows.
very_good == 1
very_bad == 2

\* Tensor::cat(&[c1, c2], 0)
cat0(c1, c2) == c1 \o c2

\* let conditions = match lm_model.condition_provider() { .. }
conditions_of(condition_provider, cfg_alpha) ==
  IF ~condition_provider THEN None
  ELSE Some(IF IsSome(cfg_alpha) THEN cat0(<<very_good>>, <<very_bad>>)
            ELSE <<very_good>>)

max_steps_uncapped(in_pcm_len) == in_pcm_len \div frame_size

\* let max_steps = (in_pcm_len / 1920).min(2500);
max_steps_of(in_pcm_len) == Min(in_pcm_len \div frame_size, max_frames)

cfg_alpha_unchanged(cfg_alpha) == cfg_alpha

\* let cfg_alpha = if args.cfg_alpha == Some(1.) { None } else { args.cfg_alpha };
cfg_alpha_of(cfg_alpha) == IF cfg_alpha = Some(one_alpha) THEN None ELSE cfg_alpha

\* usize arithmetic is modulo a power of two; it is counted modulo 2^16
\* here, TLC's integers having 32 bits.
usize_modulus == 65536

\* a - b on usize where the build does not check for overflow.
usize_sub(a, b) == (a - b) % usize_modulus

\* a - b overflows usize: a build with overflow checks panics there.
sub_overflows(a, b) == b > a

\* moshi::lm_generate_multistream::Config { .. }
config ==
  [acoustic_delay |-> acoustic_delay,
   audio_vocab_size |-> lm_config.audio_vocab_size,
   generated_audio_codebooks |-> generated_audio_codebooks,
   input_audio_codebooks |-> usize_sub(lm_config.audio_codebooks, generated_audio_codebooks),
   text_start_token |-> lm_config.text_out_vocab_size,
   text_eop_token |-> text_eop_token,
   text_pad_token |-> text_pad_token]

\* Instant::now(): the time at which execution r runs.
wall_clock(r) == r

sampler_seed_from_clock(r) == wall_clock(r)

\* LogitsProcessor::from_sampling(args.seed, ..), for audio_lp and text_lp.
sampler_seed(r) == args.seed

\* State::new(lm_model, max_steps + 20, audio_lp, text_lp, None, None, cfg_alpha, config)
StateNew(max_step_idx, audio_seed, text_seed, cfg_alpha, cfg) ==
  [max_step_idx |-> max_step_idx, audio_seed |-> audio_seed, text_seed |-> text_seed,
   cfg_alpha |-> cfg_alpha, config |-> cfg, step_idx |-> 0]

\* An Option<number> as one integer of a call's arguments.
OptInt(o) == IF IsSome(o) THEN o[1] ELSE -1

NewCall(st) ==
  Call("new",
       <<st.max_step_idx, st.audio_seed, st.text_seed, OptInt(st.cfg_alpha),
         st.config.acoustic_delay, st.config.generated_audio_codebooks,
         st.config.input_audio_codebooks, st.config.text_start_token>>,
       Ok(None))

\* The state of one execution before `run` is entered.
FreshRun ==
  [pc |-> "init", in_pcm_len |-> 0, conditions |-> None, max_steps |-> 0,
   state |-> StateNew(0, 0, 0, None, config), start_time |-> 0,
   start_index |-> 0, nsteps |-> 0, codes |-> None, step |-> 0,
   prev_text_token |-> 0, text_tokens |-> <<>>, out_pcms |-> <<>>,
   stdout |-> <<>>, detok |-> <<>>, str |-> None, out_wav |-> None, calls |-> <<>>,
   fresh |-> <<>>,
   error |-> ""]

\* A panic: the execution ends where it is.
Panicked(s, what) == [s EXCEPT !.pc = "failed", !.error = what]

\* `run` up to the head of the frame loop (lines 46-133).  The subtraction
\* of line 110 panics on overflow in a build with overflow checks and wraps
\* around in a build without.
run_setup(s, r) ==
  LET len == in_pcm_len_of(env.pcm_len, env.sample_rate)
      max_steps == max_steps_of(len)
      st == StateNew(max_steps + step_headroom, sampler_seed(r), sampler_seed(r),
                     cfg_alpha_of(args.cfg_alpha), config)
  IN IF /\ env.overflow_checks
        /\ sub_overflows(lm_config.audio_codebooks, generated_audio_codebooks)
     THEN Panicked([s EXCEPT !.in_pcm_len = len,
                             !.conditions = conditions_of(env.condition_provider,
                                                          args.cfg_alpha),
                             !.max_steps = max_steps], "overflow")
     ELSE
     [s EXCEPT !.pc = "loop",
               !.in_pcm_len = len,
               !.conditions = conditions_of(env.condition_provider, args.cfg_alpha),
               !.max_steps = max_steps,
               !.state = st,
               !.fresh = <<NewCall(st)>>,
               !.prev_text_token = st.config.text_start_token,
               !.out_pcms = <<>>,
               !.text_tokens = <<>>,
               !.nsteps = 0,
               !.start_time = wall_clock(r)]

\* ------------------------------------------------------------ the frame loop

frame_range_skewed(start_index) ==
  [lo |-> start_index * frame_size + 1, hi |-> (start_index + 1) * frame_size + 1]

\* start_index * 1920..(start_index + 1) * 1920
frame_range(start_index) ==
  [lo |-> start_index * frame_size, hi |-> (start_index + 1) * frame_size]

\* in_pcm.i((.., .., range))?: a range past the tensor's end is an error.
slice_ok(range, len) == range.lo <= range.hi /\ range.hi <= len

\* The codes of sub-step `step` of the code frame of input frame `frame`:
\* one code per codebook the codec was loaded with (line 71).
code_column(frame, step) ==
  [i \in 1..generated_audio_codebooks |-> frame * 100 + step]

\* An Option<Condition> as integers of a call's arguments.
CondInts(conditions) == IF IsSome(conditions) THEN conditions[1] ELSE <<>>

Failed_goes_on(s, what) == [s EXCEPT !.error = what]

\* The ? operator on an Err: `run` returns the error.
Failed(s, what) == [s EXCEPT !.pc = "failed", !.error = what]

next_frame_padding(s) ==
  [s EXCEPT !.start_index = s.start_index + 1, !.pc = "loop", !.codes = None, !.step = 0,
            !.out_pcms = Append(@, -1)]

\* The head of `for start_index in 0..max_steps` after an iteration.
next_frame(s) == [s EXCEPT !.start_index = s.start_index + 1, !.pc = "loop",
                           !.codes = None, !.step = 0]

\* One iteration of the frame loop up to the sub-step loop (lines 134-139).
\* o.enc is what mimi.encode_step returns.
frame_body(s, o) ==
  LET range == frame_range(s.start_index)
      s1 == [s EXCEPT !.nsteps = s.nsteps + 1, !.fresh = <<>>]
  IN IF ~slice_ok(range, s.in_pcm_len) THEN Failed(s1, "slice")
     ELSE LET s2 == [s1 EXCEPT !.fresh =
                       Append(@, Call("encode_step", <<range.lo, range.hi>>, o.enc))]
          IN IF ~o.enc.ok THEN Failed(s2, "encode_step")
             ELSE IF IsNone(o.enc.val) THEN next_frame(s2)
             ELSE [s2 EXCEPT !.codes = Some([frame |-> s.start_index,
                                             steps |-> o.enc.val[1]]),
                             !.step = 0,
                             !.pc = "substep"]

emittable_eop_only(text_token) == text_token # 0

emittable_pad_only(text_token) == text_token # 3

\* if text_token != 0 && text_token != 3
emittable(text_token) == text_token # 0 /\ text_token # 3

prev_text_token_if_emitted(prev_text_token, text_token) ==
  IF text_token # 0 /\ text_token # 3 THEN text_token ELSE prev_text_token

\* prev_text_token = text_token; after the emission, for every token.
prev_text_token_after(prev_text_token, text_token) == text_token

\* state.last_audio_tokens(): nothing until acoustic_delay steps are behind.
last_audio_tokens_ready(st) == st.step_idx > st.config.acoustic_delay

\* The vector last_audio_tokens returns: the audio tokens of the step that is
\* acoustic_delay steps back, one per audio codebook of the model.
last_audio_tokens_of(st) ==
  [i \in 1..lm_config.audio_codebooks |-> st.step_idx - st.config.acoustic_delay - 1]

audio_slice_whole(audio_tokens) == audio_tokens

\* &audio_tokens[..generated_audio_codebooks]
audio_slice(audio_tokens) == SubSeq(audio_tokens, 1, generated_audio_codebooks)

\* if let Some(audio_tokens) = state.last_audio_tokens()
decode_wanted(lat) == IsSome(lat)

end_substep_inclusive(s) ==
  IF s.step + 1 <= s.codes[1].steps THEN [s EXCEPT !.step = s.step + 1]
  ELSE [s EXCEPT !.start_index = s.start_index + 1, !.pc = "loop",
                 !.codes = None, !.step = 0]

\* After the last sub-step of a code frame the frame loop goes on.
end_substep(s) ==
  IF s.step + 1 < s.codes[1].steps THEN [s EXCEPT !.step = s.step + 1]
  ELSE next_frame(s)

\* One iteration of `for step in 0..steps` (lines 140-166).  o.tok is what
\* state.step_ returns, o.lat whether last_audio_tokens returns a vector,
\* o.dec what mimi.decode_step returns.
substep_body(s, o) ==
  LET codes == code_column(s.codes[1].frame, s.step)
      step_call == Call("step_", <<s.prev_text_token>> \o codes \o <<-1>>
                                 \o CondInts(s.conditions), o.tok)
      s1 == [s EXCEPT !.fresh = <<step_call>>]
  IN IF ~o.tok.ok THEN Failed(s1, "step_")
     ELSE
       LET text_token == o.tok.val[1]
           frag == text(s.prev_text_token, text_token, s.state.config.text_start_token)
           st == [s.state EXCEPT !.step_idx = s.state.step_idx + 1]
           s2 == IF emittable(text_token)
                 THEN [s1 EXCEPT !.text_tokens = Append(@, text_token),
                                 !.detok = Append(@,
                                     [prev |-> s.prev_text_token, cur |-> text_token,
                                      frag |-> frag]),
                                 !.stdout = IF IsSome(frag) THEN Append(@, frag[1]) ELSE @]
                 ELSE s1
           lat == IF o.lat THEN Some(last_audio_tokens_of(st)) ELSE None
           s3 == [s2 EXCEPT !.prev_text_token = prev_text_token_after(@, text_token),
                            !.state = st,
                            !.fresh = Append(@,
                                Call("last_audio_tokens", <<>>,
                                     Ok(IF o.lat THEN Some(lat[1][1]) ELSE None)))]
       IN IF ~decode_wanted(lat) THEN end_substep(s3)
          ELSE
            LET audio_tokens == audio_slice(lat[1])
                s4 == [s3 EXCEPT !.fresh =
                         Append(@, Call("decode_step", audio_tokens, o.dec))]
            IN IF ~o.dec.ok THEN Failed(s4, "decode_step")
               ELSE IF IsNone(o.dec.val) THEN end_substep(s4)
               ELSE end_substep([s4 EXCEPT !.out_pcms = Append(@, o.dec.val[1])])

\* The samples of the PCM chunk mimi.decode_step returns for vector `chunk`.
pcm_of(chunk) == [k \in 1..ChunkLen |-> chunk * ChunkLen + (k - 1)]

\* The samples of the chunks along the time axis, first chunk first.
RECURSIVE concat(_)
concat(out_pcms) ==
  IF out_pcms = <<>> THEN <<>> ELSE pcm_of(Head(out_pcms)) \o concat(Tail(out_pcms))

RECURSIVE concat_newest_first(_)
concat_newest_first(out_pcms) ==
  IF out_pcms = <<>> THEN <<>>
  ELSE concat_newest_first(Tail(out_pcms)) \o pcm_of(Head(out_pcms))

cat2_newest_first(out_pcms) ==
  IF out_pcms = <<>> THEN Err ELSE Ok(concat_newest_first(out_pcms))

cat2_of_any(out_pcms) == Ok(concat(out_pcms))

\* Tensor::cat(&out_pcms, 2): the chunks end to end; no chunk is an error.
cat2(out_pcms) == IF out_pcms = <<>> THEN Err ELSE Ok(concat(out_pcms))

\* After the loop (lines 169-184).  o.io is what the file system does:
\* "ok", "create" (File::create fails) or "write" (write_pcm_as_wav fails).
\* The file system is no part of the deterministic collaborators: it may
\* treat two executions differently.
finish_body(s, o) ==
  LET s1 == [s EXCEPT !.stdout = Append(@, <<"\n">>), !.fresh = <<>>]
      str == decode_piece_ids(s.text_tokens)
      all_pcms == cat2(s.out_pcms)
  IN IF ~str.ok THEN Failed(s1, "decode_piece_ids")
     ELSE LET s2 == [s1 EXCEPT !.str = Some(str.val),
                               !.fresh = <<Call("decode_piece_ids", s.text_tokens, Ok(None))>>]
          IN IF ~all_pcms.ok THEN Failed(s2, "cat")
             ELSE IF o.io = "create" THEN Failed(s2, "create")
             ELSE IF o.io = "write" THEN Failed([s2 EXCEPT !.out_wav = Some(<<>>)], "write")
             ELSE [s2 EXCEPT !.out_wav = Some(all_pcms.val), !.pc = "done"]

\* ------------------------------------------------------------ collaborators

\* The sub-step counts of a code frame.
StepCounts == {1, 2}

\* What mimi.encode_step may return for the next frame of s: an error, no
\* code frame, or a code frame of some sub-steps.  A codec that is not live
\* buffers every frame.
EncodeResults(s) ==
  IF ~env.live THEN {Ok(None)}
  ELSE {Err, Ok(None)}
       \cup {Ok(Some(n)) : n \in {k \in StepCounts : s.state.step_idx + k <= MaxTotalSteps}}

FrameOutcomes(s) == [enc : EncodeResults(s)]

\* What one sub-step's collaborators may return: step_ an error or a token of
\* the text vocabulary; last_audio_tokens nothing during the delay ramp and a
\* vector afterwards; decode_step an error, nothing, or the PCM chunk of the
\* decoded vector.
SubStepOutcomes(s) ==
  LET st == [s.state EXCEPT !.step_idx = s.state.step_idx + 1]
      chunk == last_audio_tokens_of(st)[1]
      tokens == 0..(lm_config.text_out_vocab_size - 1)
  IN {[tok |-> Err, lat |-> FALSE, dec |-> Ok(None)]}
     \cup (IF last_audio_tokens_ready(st)
           THEN {[tok |-> Ok(Some(t)), lat |-> TRUE, dec |-> d] :
                   t \in tokens, d \in {Err, Ok(None), Ok(Some(chunk))}}
           ELSE {[tok |-> Ok(Some(t)), lat |-> FALSE, dec |-> Ok(None)] : t \in tokens})

FinishOutcomes(s) ==
  IF s.out_pcms = <<>> THEN [io : {"ok"}] ELSE [io : {"ok", "create", "write"}]

\* The collaborators are deterministic: while both executions have made the
\* same calls with the same results, the same next call has the same result.
Deterministic(n1, n2) ==
  run[1].calls = run[2].calls =>
    \A k \in 1..Min(Len(n1.fresh), Len(n2.fresh)) :
       (/\ \A j \in 1..(k - 1) : n1.fresh[j] = n2.fresh[j]
        /\ n1.fresh[k].op = n2.fresh[k].op
        /\ n1.fresh[k].arg = n2.fresh[k].arg)
       => n1.fresh[k].res = n2.fresh[k].res

\* The outcomes left to the second execution once the first has o1: two
\* executions in the same state make the same calls, so Deterministic leaves
\* only o1.
Second(o1, outcomes) == IF run[1] = run[2] THEN {o1} \cap outcomes ELSE outcomes

\* ------------------------------------------------------------------ inputs

Seeds == {42}
Alphas == {None, Some(one_alpha), Some(30)}

\* The audio files, <<decoded samples, sample rate>>.  With the silence pad
\* the short ones give 0, 1, 3 and 6 frames; the long ones 2500 frames with a
\* remainder of 1919 samples, and 2501 frames.
LongAudio == {<<max_frames * frame_size + (frame_size - 1) - silence_pad, target_rate>>,
              <<(max_frames + 1) * frame_size - silence_pad, target_rate>>}

\* A model configuration of `total` audio codebooks with a depformer of
\* `depformer` slices (None: no depformer).
LmConfig(total, depformer) ==
  [audio_codebooks |-> total, depformer |-> depformer, text_out_vocab_size |-> 4,
   audio_vocab_size |-> 5]

\* The model configuration of most runs: as many input as generated codebooks.
EvenSplit == LmConfig(4, Some(2))

\* Other splits: one input codebook, no input codebook (no depformer and 8
\* codebooks), and two that ask for more generated codebooks than there are.
OtherSplits == {LmConfig(3, Some(2)), LmConfig(8, None), LmConfig(4, None),
                LmConfig(1, Some(2))}

\* The runs explored: every guidance setting on the inputs of at most one
\* frame, one setting on the input of three frames, a codec that buffers
\* every frame on the other inputs, and the other codebook splits, in builds
\* with and without overflow checks, on the input of one frame.
Scenarios ==
  {[audio |-> a, live |-> TRUE, alphas |-> Alphas, providers |-> BOOLEAN,
    configs |-> {EvenSplit}, checks |-> {FALSE}] :
      a \in {<<0, 192000>>, <<0, 96000>>}}
  \cup {[audio |-> <<0, 48000>>, live |-> TRUE, alphas |-> {Some(30)}, providers |-> {TRUE},
         configs |-> {EvenSplit}, checks |-> {TRUE}]}
  \cup {[audio |-> a, live |-> FALSE, alphas |-> {None}, providers |-> {FALSE},
         configs |-> {EvenSplit}, checks |-> {FALSE}] :
      a \in LongAudio \cup {<<0, target_rate>>}}
  \cup {[audio |-> <<0, 96000>>, live |-> TRUE, alphas |-> {None}, providers |-> {FALSE},
         configs |-> OtherSplits, checks |-> BOOLEAN]}

Init ==
  /\ \E sc \in Scenarios :
       /\ args \in [seed : Seeds, cfg_alpha : sc.alphas, lm_config : sc.configs]
       /\ env \in [pcm_len : {sc.audio[1]}, sample_rate : {sc.audio[2]},
                   live : {sc.live}, condition_provider : sc.providers,
                   overflow_checks : sc.checks]
  /\ run = <<FreshRun, FreshRun>>

\* ----------------------------------------------------------------- actions

Setup ==
  /\ \A r \in Runs : run[r].pc = "init"
  /\ run' = <<Logged(run_setup(run[1], 1)), Logged(run_setup(run[2], 2))>>
  /\ UNCHANGED <<args, env>>

FrameStep ==
  /\ \A r \in Runs : run[r].pc = "loop" /\ run[r].start_index < run[r].max_steps
  /\ \E o1 \in FrameOutcomes(run[1]) :
     \E o2 \in Second(o1, FrameOutcomes(run[2])) :
     \E n1 \in {Logged(frame_body(run[1], o1))},
        n2 \in {Logged(frame_body(run[2], o2))} :
       Deterministic(n1, n2) /\ run' = <<n1, n2>>
  /\ UNCHANGED <<args, env>>

SubStep ==
  /\ \A r \in Runs : run[r].pc = "substep"
  /\ \E o1 \in SubStepOutcomes(run[1]) :
     \E o2 \in Second(o1, SubStepOutcomes(run[2])) :
     \E n1 \in {Logged(substep_body(run[1], o1))},
        n2 \in {Logged(substep_body(run[2], o2))} :
       Deterministic(n1, n2) /\ run' = <<n1, n2>>
  /\ UNCHANGED <<args, env>>

Finish ==
  /\ \A r \in Runs : run[r].pc = "loop" /\ run[r].start_index >= run[r].max_steps
  /\ \E o1 \in FinishOutcomes(run[1]), o2 \in FinishOutcomes(run[2]) :
       run' = <<Logged(finish_body(run[1], o1)), Logged(finish_body(run[2], o2))>>
  /\ UNCHANGED <<args, env>>

Next == Setup \/ FrameStep \/ SubStep \/ Finish

Spec == Init /\ [][Next]_vars

\* ------------------------------------------------------------------ claims

Max(a, b) == IF a > b THEN a ELSE b

IsStep(c) == c.op = "step_"
IsEncode(c) == c.op = "encode_step"
IsDecode(c) == c.op = "decode_step"

\* The sub-steps an execution has gone through: the stepper calls that returned.
NumSubSteps(s) == Len(SelectSeq(s.calls, LAMBDA c : IsStep(c) /\ c.res.ok))

\* The stepper calls among the first k calls of a trace.
StepsBefore(calls, k) == Len(SelectSeq(SubSeq(calls, 1, k - 1), IsStep))

\* The execution has come to the frame loop.
Entered(s) == s.pc # "init" /\ s.error # "overflow"
LoopLeft(s) == s.pc = "done" \/ s.error \in {"decode_piece_ids", "cat", "create", "write"}

\* The delay the claims name.
D == 2

\* No decode_step call comes before more than D stepper calls.
NoEarlyDecode(s) ==
  \A k \in 1..Len(s.calls) : IsDecode(s.calls[k]) => StepsBefore(s.calls, k) > D

\* C1, as stated: in every run no audio-token vector is decoded during the
\* first D sub-steps, and at every point of the run the decoded PCM chunks
\* are at most (sub-steps executed so far - D).
C1_AsStated ==
  \A r \in Runs :
    Entered(run[r]) =>
      /\ NoEarlyDecode(run[r])
      /\ Len(run[r].out_pcms) <= NumSubSteps(run[r]) - D

\* C1, amended: no audio-token vector is decoded during the first D
\* sub-steps, and at every point of the run the decode calls and the decoded
\* PCM chunks are at most max(0, sub-steps executed so far - D).
C1_DelayCorrectness ==
  \A r \in Runs :
    /\ NoEarlyDecode(run[r])
    /\ Len(SelectSeq(run[r].calls, IsDecode)) <= Max(0, NumSubSteps(run[r]) - D)
    /\ Len(run[r].out_pcms) <= Max(0, NumSubSteps(run[r]) - D)

\* A run of four sub-steps whose last two each decoded a chunk.
C1_Witness ==
  \E r \in Runs : NumSubSteps(run[r]) = D + 2 /\ Len(run[r].out_pcms) = 2

\* C2: after any sequence of sub-steps the text-token history, and so the
\* input of the final one-shot transcript decode, holds no token 0 and no
\* token 3, whatever the stepper returned.
C2_SpecialTokenExclusion ==
  \A r \in Runs :
    /\ \A i \in 1..Len(run[r].text_tokens) : run[r].text_tokens[i] \notin {0, 3}
    /\ \A k \in 1..Len(run[r].calls) :
         run[r].calls[k].op = "decode_piece_ids" =>
           /\ run[r].calls[k].arg = run[r].text_tokens
           /\ \A i \in 1..Len(run[r].calls[k].arg) : run[r].calls[k].arg[i] \notin {0, 3}

\* The stepper returned 0, 3 and other tokens, and the transcript was decoded.
C2_Witness ==
  \E r \in Runs :
    /\ IsSome(run[r].str)
    /\ run[r].text_tokens # <<>>
    /\ \E i, j \in 1..Len(run[r].calls) :
         /\ IsStep(run[r].calls[i]) /\ run[r].calls[i].res = Ok(Some(0))
         /\ IsStep(run[r].calls[j]) /\ run[r].calls[j].res = Ok(Some(3))

\* The entries of the frames handed to the codec, in call order.
Frames(s) == SelectSeq(s.calls, IsEncode)

RECURSIVE SumN(_)
SumN(f) == IF f = <<>> THEN 0 ELSE Head(f).n + SumN(Tail(f))

\* The frames handed to the codec so far.
NumFrames(s) == SumN(Frames(s))

\* The frames are consecutive windows of 1920 samples from sample 0, none
\* past the end of the padded input: every entry of n frames spans n * 1920
\* samples and starts where the entry before it ends.
ExactFrames(s) ==
  /\ s.error # "slice"
  /\ \A f \in {Frames(s)} :
       \A i \in 1..Len(f) :
         /\ f[i].arg[1] = (IF i = 1 THEN 0 ELSE f[i - 1].arg[2])
         /\ f[i].arg[2] - f[i].arg[1] = 1920 * f[i].n
         /\ f[i].arg[2] <= s.in_pcm_len

\* C3, as stated: for every padded input length L the frame loop produces
\* exactly floor(L / 1920) frames, frame i being the samples
\* [i * 1920, (i + 1) * 1920), in increasing order, none past L.
C3_AsStated ==
  \A r \in Runs :
    /\ ExactFrames(run[r])
    /\ LoopLeft(run[r]) => NumFrames(run[r]) = run[r].in_pcm_len \div 1920

\* C3, amended: the frame loop produces exactly min(floor(L / 1920), 2500)
\* frames, frame i being the samples [i * 1920, (i + 1) * 1920), in
\* increasing order, none past L.
C3_FrameSlicing ==
  \A r \in Runs :
    /\ ExactFrames(run[r])
    /\ NumFrames(run[r]) <= Min(run[r].in_pcm_len \div 1920, 2500)
    /\ LoopLeft(run[r]) =>
         NumFrames(run[r]) = Min(run[r].in_pcm_len \div 1920, 2500)

\* The loop has ended on an input of 2501 whole frames.
C3_Witness ==
  \E r \in Runs :
    /\ LoopLeft(run[r])
    /\ run[r].in_pcm_len \div 1920 = 2501
    /\ NumFrames(run[r]) = 2500

\* b is longer than a and starts with a.
StrictExtension(a, b) == Len(b) > Len(a) /\ SubSeq(b, 1, Len(a)) = a

\* The calls of the incremental detokenizer in both executions.
DetokCalls == UNION {{run[r].detok[i] : i \in 1..Len(run[r].detok)} : r \in Runs}

\* What the suffix law asks of one detokenizer call.
SuffixLaw(d) ==
  IF d.prev = lm_config.text_out_vocab_size
  THEN d.frag = Some(decode_piece_ids(<<d.cur>>).val)
  ELSE \A a \in {decode_piece_ids(<<d.prev>>).val},
          b \in {decode_piece_ids(<<d.prev, d.cur>>).val} :
         /\ IsSome(d.frag)
         /\ StrictExtension(a, b) => a \o d.frag[1] = b
         /\ Len(b) <= Len(a) => d.frag[1] = <<>>

\* C4: for every pair (prev, cur) passed to the incremental detokenizer, the
\* fragment is decode_piece([cur]) when prev is the start token; otherwise it
\* is what decode_piece([prev, cur]) adds to decode_piece([prev]) when the
\* first strictly extends the second, and empty when it is not longer.  The
\* fragment depends only on (prev, cur).
C4_SuffixLaw ==
  /\ \A d \in DetokCalls : SuffixLaw(d)
  /\ \A d, e \in DetokCalls : d.prev = e.prev /\ d.cur = e.cur => d.frag = e.frag

\* The detokenizer was called from the start token, with a pair that adds
\* text and with a pair that adds none.
C4_Witness ==
  \E d, e, f \in DetokCalls :
    /\ d.prev = lm_config.text_out_vocab_size /\ d.frag = Some(<<"a">>)
    /\ e.prev # lm_config.text_out_vocab_size /\ e.frag = Some(<<" ", "a">>)
    /\ f.prev # lm_config.text_out_vocab_size /\ f.frag = Some(<<>>)

\* The condition rows of one stepper call: what follows the -1 that ends
\* the codes.
CondOf(c) == SubSeq(c.arg, generated_audio_codebooks + 3, Len(c.arg))

StepCalls(s) == SelectSeq(s.calls, IsStep)

\* CFG is active: an alpha is requested and it is not 1.0.
CfgActive == IsSome(args.cfg_alpha) /\ args.cfg_alpha[1] # 10

\* C5: when the generator has a condition provider, every stepper call gets
\* the batch-doubled condition (very_good then very_bad) exactly when CFG is
\* active, and the single very_good condition in every other case.
C5_ConditioningSelection ==
  \A r \in Runs :
    env.condition_provider =>
      \A calls \in {StepCalls(run[r])} :
        \A k \in 1..Len(calls) :
          CondOf(calls[k]) = (IF CfgActive THEN <<1, 2>> ELSE <<1>>)

\* C6: a run with an alpha and a generator without condition provider fails
\* with a configuration error before the loop: no stepper call, no output.
C6_UnsupportedConditioning ==
  \A r \in Runs :
    (IsSome(args.cfg_alpha) /\ ~env.condition_provider /\ Entered(run[r])) =>
      /\ run[r].pc = "failed"
      /\ run[r].error = "config"
      /\ StepCalls(run[r]) = <<>>
      /\ IsNone(run[r].out_wav)

\* C7: with alpha = 1.0 the generator state is created with no CFG alpha, as
\* in a run without alpha; every other alpha is passed unchanged.
C7_CfgIdentity ==
  \A r \in Runs :
    Entered(run[r]) =>
      /\ args.cfg_alpha \in {None, Some(10)} =>
           /\ run[r].state.cfg_alpha = None
           /\ run[r].calls[1].op = "new" /\ run[r].calls[1].arg[4] = -1
      /\ args.cfg_alpha \notin {None, Some(10)} =>
           /\ run[r].state.cfg_alpha = args.cfg_alpha
           /\ run[r].calls[1].op = "new" /\ run[r].calls[1].arg[4] = args.cfg_alpha[1]

\* A run with alpha = 1.0 has stepped the generator.
C7_Witness ==
  \E r \in Runs : args.cfg_alpha = Some(10) /\ NumSubSteps(run[r]) > 0

\* What an execution shows to the outside, up to what the file system does
\* with the wave file: the error the run returns, its codec and stepper
\* calls, the token history, the streamed text, the transcript and the PCM
\* chunks of the output.
Observable(s) ==
  <<IF s.error \in {"create", "write"} THEN "" ELSE s.error,
    s.pc \in {"done", "failed"},
    SelectSeq(s.calls, LAMBDA c : c.op # "new"), s.text_tokens,
    s.stdout, s.str, s.out_pcms>>

\* C8: two runs on the same audio, seed and configuration, with
\* deterministic collaborators, make the same encode/step/decode calls and
\* produce the same token history, streamed fragments and PCM output.
C8_Determinism == Observable(run[1]) = Observable(run[2])

\* Two executions at different times have both written their wave file
\* after emitting text.
C8_Witness ==
  /\ run[1].start_time # run[2].start_time
  /\ \A r \in Runs :
       run[r].pc = "done" /\ run[r].text_tokens # <<>> /\ Len(run[r].out_pcms) = 2

LoopErrors == {"slice", "encode_step", "step_", "decode_step"}

\* The fragments the detokenizer calls of s produced, in order.
RECURSIVE Fragments(_)
Fragments(detok) ==
  IF detok = <<>> THEN <<>>
  ELSE (IF IsSome(Head(detok).frag) THEN <<Head(detok).frag[1]>> ELSE <<>>)
       \o Fragments(Tail(detok))

\* C9: when a collaborator call of the loop returns an error the run stops
\* there: no call follows the failing one, the wave file is neither created
\* nor written, the run returns the error, and the fragments streamed so
\* far stay emitted.
C9_AbortOnError ==
  \A r \in Runs :
    /\ \A k \in 1..(Len(run[r].calls) - 1) : run[r].calls[k].res.ok
    /\ (run[r].calls # <<>> /\ ~run[r].calls[Len(run[r].calls)].res.ok) =>
         /\ run[r].pc = "failed"
         /\ run[r].error = run[r].calls[Len(run[r].calls)].op
    /\ (run[r].pc = "failed" /\ run[r].error \in LoopErrors) =>
         /\ run[r].error # "slice" =>
              /\ ~run[r].calls[Len(run[r].calls)].res.ok
              /\ run[r].calls[Len(run[r].calls)].op = run[r].error
         /\ IsNone(run[r].out_wav)
         /\ IsNone(run[r].str)
         /\ run[r].stdout = Fragments(run[r].detok)

\* decode_step failed in a sub-step after text was streamed and a chunk
\* decoded.
C9_Witness ==
  \E r \in Runs :
    /\ run[r].pc = "failed" /\ run[r].error = "decode_step"
    /\ run[r].stdout # <<>> /\ Len(run[r].out_pcms) = 1

Terminated == \A r \in Runs : run[r].pc \in {"done", "failed"}

\* The frames never exceed min(floor(L / 1920), 2500); a run leaves the loop
\* after exactly that many; a run that ends before has had an error returned.
FrameBudget ==
  \A r \in Runs :
    /\ NumFrames(run[r]) <= Min(run[r].in_pcm_len \div 1920, 2500)
    /\ run[r].start_index <= 2500
    /\ LoopLeft(run[r]) =>
         NumFrames(run[r]) = Min(run[r].in_pcm_len \div 1920, 2500)
    /\ (run[r].pc = "failed" /\ ~LoopLeft(run[r])) =>
         run[r].error \in LoopErrors \cup {"overflow"}

\* How far an execution is: a number that every step of `run` raises.
Rank(s) ==
  IF s.pc = "init" THEN 0
  ELSE IF s.pc = "loop" THEN 1 + 3 * s.start_index
  ELSE IF s.pc = "substep" THEN 2 + 3 * s.start_index + s.step
  ELSE 3 * 2500 + 2

\* Every step takes each execution further.
Progress == \A r \in Runs : Rank(run'[r]) > Rank(run[r])

\* C10: a run without error processes exactly min(floor(L / 1920), 2500)
\* frames, never more than the cap, and every run ends: while it has not
\* ended it can take a step, every step takes it further, and it reaches
\* output assembly unless a call returns an error.
C10_BoundedTermination ==
  /\ [](FrameBudget /\ (Terminated \/ ENABLED Next))
  /\ [][Progress]_vars

\* A run has gone through 2500 frames of an input of 2500 frames and 1919
\* more samples, and reached output assembly.
C10_Witness ==
  \E r \in Runs :
    /\ LoopLeft(run[r])
    /\ run[r].in_pcm_len = 2500 * 1920 + 1919
    /\ NumFrames(run[r]) = 2500

\* The chunks decode_step returned in the calls of s, in call order.
DecodedChunks(s) ==
  LET got == SelectSeq(s.calls, LAMBDA c : IsDecode(c) /\ c.res.ok /\ IsSome(c.res.val))
  IN [i \in 1..Len(got) |-> got[i].res.val[1]]

\* The chunk list of s after a step is the list before it, or that list with
\* one chunk added at its end.
Appended(old, new) ==
  \/ new = old
  \/ Len(new) = Len(old) + 1 /\ SubSeq(new, 1, Len(old)) = old

\* The waveform written holds the samples of the chunks list, chunk i at
\* the samples (i - 1) * ChunkLen + 1 .. i * ChunkLen.
WaveformInOrder(s) ==
  (s.pc = "done") =>
    /\ IsSome(s.out_wav)
    /\ Len(s.out_wav[1]) = ChunkLen * Len(s.out_pcms)
    /\ \A i \in 1..Len(s.out_pcms) : \A k \in 1..ChunkLen :
         s.out_wav[1][(i - 1) * ChunkLen + k] = s.out_pcms[i] * ChunkLen + (k - 1)

\* C11: the PCM chunk list only grows at its end; it holds the chunks
\* decode_step returned in the order of the sub-steps that decoded them,
\* across frames and within a frame; and the waveform written is all of these
\* chunks end to end in that order, none dropped, doubled or moved.
C11_PcmOrder ==
  /\ [](\A r \in Runs :
          /\ run[r].out_pcms = DecodedChunks(run[r])
          /\ \A i \in 1..(Len(run[r].out_pcms) - 1) :
               run[r].out_pcms[i] < run[r].out_pcms[i + 1]
          /\ WaveformInOrder(run[r]))
  /\ [][\A r \in Runs : Appended(run[r].out_pcms, run'[r].out_pcms)]_vars

\* A run of at least three frames has written a wave file of two chunks.
C11_Witness ==
  \E r \in Runs :
    /\ run[r].pc = "done"
    /\ Len(run[r].out_pcms) = 2
    /\ run[r].nsteps >= 3
    /\ Len(SelectSeq(run[r].calls, IsDecode)) = 2

IsQuery(c) == c.op = "last_audio_tokens"

\* The delayed-audio query of call c returned a vector.
Returned(c) == c.res.ok /\ IsSome(c.res.val)

\* Call k of the trace is a decode of the sub-step it stands in: the two
\* calls before it are that sub-step's stepper call and its query, and the
\* query returned a vector.
GatedDecode(calls, k) ==
  /\ k >= 3
  /\ IsStep(calls[k - 2]) /\ calls[k - 2].res.ok
  /\ IsQuery(calls[k - 1]) /\ Returned(calls[k - 1])

\* C12: decode_step is called only in a sub-step whose delayed-audio query
\* returned a vector, at most once in that sub-step and after its stepper
\* call, with a vector of exactly generated_audio_codebooks entries; a
\* sub-step whose query returned nothing makes no decode call and adds no PCM
\* chunk.
C12_DecodeGating ==
  \A r \in Runs :
    \A calls \in {run[r].calls} :
      /\ \A k \in 1..Len(calls) :
           /\ IsDecode(calls[k]) =>
                /\ GatedDecode(calls, k)
                /\ Len(calls[k].arg) = generated_audio_codebooks
           /\ (IsQuery(calls[k]) /\ ~Returned(calls[k]) /\ k < Len(calls)) =>
                ~IsDecode(calls[k + 1])
           /\ IsQuery(calls[k]) => k >= 2 /\ IsStep(calls[k - 1])
      /\ Len(run[r].out_pcms) <= Len(SelectSeq(calls, IsDecode))
      /\ Len(SelectSeq(calls, IsDecode))
           <= Len(SelectSeq(calls, LAMBDA c : IsQuery(c) /\ Returned(c)))

\* A run whose first queries returned nothing and whose later query returned
\* a vector, which was decoded.
C12_Witness ==
  \E r \in Runs :
    \E i, j \in 1..Len(run[r].calls) :
      /\ i < j
      /\ IsQuery(run[r].calls[i]) /\ ~Returned(run[r].calls[i])
      /\ IsDecode(run[r].calls[j]) /\ Returned(run[r].calls[j])
      /\ Len(run[r].out_pcms) = 1

\* The result of a call that returned, and returned nothing.
Absent(c) == c.res.ok /\ IsNone(c.res.val)

\* The step from s to t is a frame for which encode_step returned no code
\* frame.
AbsentEncode(s, t) ==
  /\ s.pc = "loop" /\ t.fresh # <<>>
  /\ IsEncode(t.fresh[1]) /\ Absent(t.fresh[1])

\* The step from s to t is a sub-step whose decode_step returned no chunk.
AbsentDecode(s, t) ==
  /\ s.pc = "substep" /\ t.fresh # <<>>
  /\ IsDecode(t.fresh[Len(t.fresh)]) /\ Absent(t.fresh[Len(t.fresh)])

\* The frame from s to t had no effect but to move the loop to the next frame.
FrameSkipped(s, t) ==
  /\ Len(t.fresh) = 1
  /\ StepCalls(t) = StepCalls(s)
  /\ SelectSeq(t.calls, IsDecode) = SelectSeq(s.calls, IsDecode)
  /\ t.prev_text_token = s.prev_text_token
  /\ t.text_tokens = s.text_tokens
  /\ t.out_pcms = s.out_pcms
  /\ t.stdout = s.stdout
  /\ t.state = s.state
  /\ t.error = "" /\ t.pc = "loop" /\ t.start_index = s.start_index + 1

\* The sub-step from s to t added no chunk and the loop goes on, with the
\* next sub-step of the code frame or with the next frame.
ChunkSkipped(s, t) ==
  /\ t.out_pcms = s.out_pcms
  /\ t.error = ""
  /\ \/ t.pc = "substep" /\ t.start_index = s.start_index /\ t.step = s.step + 1
     \/ t.pc = "loop" /\ t.start_index = s.start_index + 1

\* C13: a frame for which encode_step returns no code frame causes no
\* stepper call and no decode call, changes neither the previous text token
\* nor the token history nor the PCM list, and the loop goes on with the next
\* frame without error; a sub-step whose decode_step returns nothing adds no
\* chunk and the loop goes on.
C13_AbsentEncode ==
  [][\A r \in Runs :
       /\ AbsentEncode(run[r], run'[r]) => FrameSkipped(run[r], run'[r])
       /\ AbsentDecode(run[r], run'[r]) => ChunkSkipped(run[r], run'[r])]_vars

\* After a sub-step, a frame gave no code frame and a later frame was
\* stepped again; a decode returned nothing and a later one a chunk.
C13_Witness ==
  \E r \in Runs :
    \A calls \in {run[r].calls} :
      /\ \E j \in 2..(Len(calls) - 1) :
           /\ IsEncode(calls[j]) /\ Absent(calls[j])
           /\ IsQuery(calls[j - 1]) \/ IsDecode(calls[j - 1])
           /\ IsEncode(calls[j + 1]) /\ Returned(calls[j + 1])
      /\ \E k \in 1..Len(calls) :
           /\ IsDecode(calls[k]) /\ Absent(calls[k])
           /\ IsDecode(calls[Len(calls)]) /\ Returned(calls[Len(calls)])
           /\ k < Len(calls)

\* The previous text token a stepper call was given, the token it returned,
\* and the input frame and the sub-step of the codes it was given.
PrevOf(c) == c.arg[1]
TokenOf(c) == c.res.val[1]
FrameOf(c) == c.arg[2] \div 100
SubStepOf(c) == c.arg[2] % 100

\* Stepper call k of sc follows call k - 1 in the order of the code frames:
\* the next sub-step of the same frame, or sub-step 0 of a later frame.
InFeedOrder(sc, k) ==
  IF k = 1 THEN SubStepOf(sc[1]) = 0
  ELSE \/ FrameOf(sc[k]) = FrameOf(sc[k - 1]) /\ SubStepOf(sc[k]) = SubStepOf(sc[k - 1]) + 1
       \/ FrameOf(sc[k]) > FrameOf(sc[k - 1]) /\ SubStepOf(sc[k]) = 0

\* C14: the first stepper call of a run is given the start token as previous
\* text token, every later one the token the stepper call before it returned,
\* also when that token is 0 or 3 and when the two calls are in different
\* frames; the sub-steps of a code frame are fed in increasing index and the
\* frames in increasing index; between two stepper calls the previous text
\* token is the token the last one returned.
C14_Chaining ==
  \A r \in Runs :
    \A sc \in {StepCalls(run[r])} :
      /\ \A k \in 1..Len(sc) :
           /\ PrevOf(sc[k]) = (IF k = 1 THEN lm_config.text_out_vocab_size
                               ELSE TokenOf(sc[k - 1]))
           /\ InFeedOrder(sc, k)
           /\ k < Len(sc) => sc[k].res.ok
      /\ (Entered(run[r]) /\ sc = <<>>) =>
           run[r].prev_text_token = lm_config.text_out_vocab_size
      /\ (sc # <<>> /\ sc[Len(sc)].res.ok) =>
           run[r].prev_text_token = TokenOf(sc[Len(sc)])

\* A stepper call in a later frame was given the token 3 that the call
\* before it returned, and a call in the same frame the token 0.
C14_Witness ==
  \E r \in Runs :
    \A sc \in {StepCalls(run[r])} :
      \E i, j \in 2..Len(sc) :
        /\ PrevOf(sc[i]) = 3 /\ FrameOf(sc[i]) > FrameOf(sc[i - 1])
        /\ PrevOf(sc[j]) = 0 /\ FrameOf(sc[j]) = FrameOf(sc[j - 1])

\* The tokens the stepper has returned to s, in call order.
Returned_tokens(s) ==
  LET got == SelectSeq(s.calls, LAMBDA c : IsStep(c) /\ c.res.ok)
  IN [i \in 1..Len(got) |-> got[i].res.val[1]]

\* C15: at every point of the run the token history is the tokens the
\* stepper has returned so far without the tokens 0 and 3, in the order they
\* were returned; it only grows at its end; and the incremental detokenizer
\* has been called exactly once for each token of the history, in order, and
\* for no special token.
C15_TokenHistory ==
  /\ [](\A r \in Runs :
          /\ run[r].text_tokens =
               SelectSeq(Returned_tokens(run[r]), LAMBDA t : t \notin {0, 3})
          /\ Len(run[r].detok) = Len(run[r].text_tokens)
          /\ \A i \in 1..Len(run[r].detok) :
               /\ run[r].detok[i].cur = run[r].text_tokens[i]
               /\ run[r].detok[i].cur \notin {0, 3})
  /\ [][\A r \in Runs : /\ Appended(run[r].text_tokens, run'[r].text_tokens)
                         /\ Appended(run[r].detok, run'[r].detok)]_vars

\* The stepper returned 2, 0, 3 and 2 in a row, and the history is 2, 2.
C15_Witness ==
  \E r \in Runs :
    /\ Returned_tokens(run[r]) = <<2, 0, 3, 2>>
    /\ run[r].text_tokens = <<2, 2>>

\* C16: in every call of the incremental detokenizer neither the current
\* token nor the previous token of the window is the token 0 or the token 3,
\* also when a non-special token directly follows a special one.
C16_NoSpecialInWindow ==
  \A d \in DetokCalls : d.cur \notin {0, 3} /\ d.prev \notin {0, 3}

\* The codebook counts of the generator configuration of s split the audio
\* codebooks of the model.
SplitsCodebooks(s) ==
  /\ s.state.config.input_audio_codebooks >= 0
  /\ s.state.config.generated_audio_codebooks >= 0
  /\ s.state.config.input_audio_codebooks + s.state.config.generated_audio_codebooks
       = lm_config.audio_codebooks

\* C17: in every run that comes to the frame loop the generator
\* configuration has input_audio_codebooks + generated_audio_codebooks = the
\* audio codebooks of the model, both counts non-negative and the same for
\* the whole run; a model configuration with more generated codebooks than
\* audio codebooks never gives a run with a wrapped-around input count.
C17_CodebookSplit ==
  \A r \in Runs :
    /\ Entered(run[r]) =>
         /\ SplitsCodebooks(run[r])
         /\ run[r].calls[1].op = "new"
         /\ run[r].calls[1].arg[7] = run[r].state.config.input_audio_codebooks
         /\ run[r].calls[1].arg[6] = run[r].state.config.generated_audio_codebooks
    /\ generated_audio_codebooks > lm_config.audio_codebooks =>
         /\ run[r].pc \in {"init", "failed"}
         /\ run[r].calls = <<>>

\* C18: a run that leaves the loop with no PCM chunk (no frame, no code
\* frame, no more than acoustic_delay sub-steps, or no chunk from any decode)
\* fails at the concatenation: it returns an error and the wave file is never
\* created; a wave file is created or written only after at least one chunk.
C18_EmptyAudio ==
  \A r \in Runs :
    /\ (LoopLeft(run[r]) /\ run[r].out_pcms = <<>>) =>
         /\ run[r].pc = "failed"
         /\ run[r].error = "cat"
         /\ IsNone(run[r].out_wav)
    /\ (IsSome(run[r].out_wav) \/ run[r].pc = "done"
          \/ run[r].error \in {"create", "write"}) =>
         /\ Len(run[r].out_pcms) >= 1
         /\ Len(DecodedChunks(run[r])) >= 1

\* A run of more than acoustic_delay sub-steps whose decode calls all
\* returned nothing has failed at the concatenation.
C18_Witness ==
  \E r \in Runs :
    /\ run[r].pc = "failed" /\ run[r].error = "cat"
    /\ NumSubSteps(run[r]) > D
    /\ Len(SelectSeq(run[r].calls, IsDecode)) = 2

\* Every code frame encode_step has returned to s has at most one sub-step.
AtMostOneSubStep(s) ==
  \A k \in 1..Len(s.calls) :
    (IsEncode(s.calls[k]) /\ Returned(s.calls[k])) => s.calls[k].res.val[1] <= 1

\* C19: the generator state is created with capacity max_steps + 20, where
\* max_steps = min(floor(L / 1920), 2500); in a run whose encode calls each
\* give at most one sub-step the stepper calls are at most max_steps, and so
\* never more than the capacity.
C19_StepBudget ==
  \A r \in Runs :
    Entered(run[r]) =>
      /\ run[r].max_steps = Min(run[r].in_pcm_len \div 1920, 2500)
      /\ run[r].state.max_step_idx = run[r].max_steps + 20
      /\ run[r].calls[1].op = "new" /\ run[r].calls[1].arg[1] = run[r].max_steps + 20
      /\ AtMostOneSubStep(run[r]) =>
           /\ Len(StepCalls(run[r])) <= run[r].max_steps
           /\ Len(StepCalls(run[r])) <= run[r].state.max_step_idx
           /\ run[r].state.step_idx <= run[r].state.max_step_idx

\* Each of the three frames of an input gave a code frame of one sub-step.
C19_Witness ==
  \E r \in Runs :
    /\ run[r].max_steps = 3
    /\ AtMostOneSubStep(run[r])
    /\ Len(StepCalls(run[r])) = 3

====
